---- MODULE Spec2Model ----
(***************************************************************************)
(* LicenseChain Ethereum SDK: the retry utility (retryWithBackoff), the    *)
(* timeout wrapper (withTimeout), the mutating calls and the read methods  *)
(* of LicenseContract and LicenseChainEthereum, the error normalizers      *)
(* (fromEthersError, fromRpcError), getNetworkConfig and the construction  *)
(* of LicenseChainEthereum, as state machines translated from the source.  *)
(*                                                                         *)
(* An await is a control point: the code between two awaits runs to        *)
(* completion, so each action below is one such stretch of code.           *)
(***************************************************************************)
EXTENDS Integers, Sequences, FiniteSets, TLC

VARIABLES
    \* ---- retryWithBackoff (one invocation) ----
    maxRetries,     \* parameter maxRetries
    baseDelay,      \* parameter baseDelay (ms)
    rPc,            \* "idle" | "loop" | "await" | "sleep" | "returned" | "thrown"
    i,              \* the loop index
    lastError,      \* the local lastError
    rResult,        \* the value returned or thrown
    rCalls,         \* how many times fn was invoked
    rSleeps,        \* the delays passed to setTimeout, in order
    rHist,          \* what each invocation of fn settled with, in order
    \* ---- withTimeout (one invocation) ----
    timeoutMs,      \* parameter timeoutMs
    clock,          \* ms elapsed since withTimeout was called
    tOp,            \* the promise passed in: Pending or its settlement
    tTimer,         \* the setTimeout timer: "none" | "armed" | "fired"
    tRace,          \* the promise Promise.race returned
    tVia,           \* which input settled first: "none" | "op" | "timer"
    \* ---- mutating calls of LicenseContract / LicenseChainEthereum ----
    config,         \* the EthereumConfig given at construction
    callPc,         \* per call: "idle" | "submitting" | "waiting" | "returned" | "rejected"
    callOp,         \* per call: the body it runs: "none" | "method" | "deploy"
    callTx,         \* per call: the hash of the transaction its submission returned (0: none)
    callResult,     \* per call: the value returned or the error thrown
    callSubmits,    \* per call: how many times the contract method was invoked
    callStage,      \* per call: the await that threw: "none" | "submit" | "wait"
    callObserved,   \* per call: the confirmations its transaction had when wait() resolved
    callReceipt,    \* per call: the receipt tx.wait() resolved with
    callLost,       \* per call: the node will never answer the pending request
    txs,            \* the transactions broadcast, by hash (their index)
    height,         \* the chain's block height
    \* ---- read methods of LicenseContract (one invocation) ----
    rdMethod,       \* the method called ("none" before the call)
    rdPc,           \* "idle" | "awaiting" | "returned" | "rejected"
    rdReads,        \* the promises the method awaits, in the order it writes them
    rdResult,       \* the value returned or the error thrown
    rdRaw,          \* the provider's own error of the read that failed the call
    rdSent,         \* the contract functions the read methods called so far sent as transactions
    \* ---- LicenseChainError.fromEthersError / fromRpcError ----
    nIn,            \* the error passed in
    nVia,           \* the function it was passed to ("none" before the call)
    nOut,           \* the LicenseChainError returned
    nDepth,         \* how many times the error has been passed on to a normalizer
    \* ---- getNetworkConfig (one invocation) ----
    argNetwork,     \* argument network
    argRpcUrl,      \* argument rpcUrl (Undefined when not passed)
    argChainId,     \* argument chainId (Undefined when not passed)
    netPc,          \* "idle" | "called" | "done"
    netResult,      \* what the call returned or threw
    \* ---- LicenseChainEthereum (one object) ----
    sdkConfig,      \* the EthereumConfig passed to the constructor
    sdkPc,          \* "new" | "constructed" | "thrown" ("none": no object)
    sdkError,       \* what the constructor threw
    networkConfig,  \* this.networkConfig
    provider,       \* this.provider: "none" | "Web3Provider" | "JsonRpcProvider"
    wallet,         \* this.wallet is set
    gcPc,           \* getContract: "idle" | "done"
    gcResult,       \* what getContract returned or threw
    dpPc,           \* a deploy method: "idle" | "done"
    dpMethod,       \* the deploy method called ("none" before the call)
    dpResult,       \* what the deploy method returned or rejected with
    \* ---- minting licenses and reading their metadata back ----
    mtLicenses,     \* the MintOptions / BatchMintOptions[] passed to the mint
    mtPc,           \* "idle" | "minted" | "read"
    mtCall,         \* the contract function invoked and its arguments
    mtStore,        \* the contract's metadata string of each token minted
    mtRead,         \* the token getLicenseMetadata was called for, and what it gave
    \* ---- the gas parameters a mutating call submits ----
    gsConfig,       \* gasLimit and gasPrice of the EthereumConfig
    gsOp,           \* the method called ("none" before the call)
    gsPc,           \* "idle" | "submitted" | "returned" | "rejected"
    gsOverrides     \* the overrides argument of the contract call or deploy

retryVars == <<maxRetries, baseDelay, rPc, i, lastError, rResult, rCalls, rSleeps, rHist>>
timeoutVars == <<timeoutMs, clock, tOp, tTimer, tRace, tVia>>
execVars == <<config, callPc, callOp, callTx, callResult, callSubmits, callStage,
              callObserved, callReceipt, callLost, txs, height>>
readVars == <<rdMethod, rdPc, rdReads, rdResult, rdRaw, rdSent>>
normVars == <<nIn, nVia, nOut, nDepth>>
netVars == <<argNetwork, argRpcUrl, argChainId, netPc, netResult>>
sdkVars == <<sdkConfig, sdkPc, sdkError, networkConfig, provider, wallet, gcPc, gcResult,
            dpPc, dpMethod, dpResult>>
metaVars == <<mtLicenses, mtPc, mtCall, mtStore, mtRead>>
gasVars == <<gsConfig, gsOp, gsPc, gsOverrides>>
vars == <<retryVars, timeoutVars, execVars, readVars, normVars, netVars, sdkVars, metaVars, gasVars>>

\* ------------------------------------------------------------------ bounds
MaxRetriesHi == 3
MaxTimeoutMs == 2
MaxClock == 4
NumCalls == 2
MaxHeight == 2
MaxWraps == 2
MaxBatch == 2

\* ------------------------------------------------------------------ values
\* A JavaScript error value: its code property ("" when it has none), its
\* message as a sequence of words, and the call that produced it.
Err(code, message, id) == [code |-> code, message |-> message, id |-> id]

\* undefined, the value of a local that was never assigned
Undefined == [undefined |-> TRUE]

Pending == [state |-> "pending"]
Resolved(v) == [state |-> "resolved", value |-> v]
Rejected(e) == [state |-> "rejected", error |-> e]

\* String.prototype.includes on a message, by words
Includes(message, word) == \E k \in DOMAIN message : message[k] = word

\* src/unnamed/part_000:567 isRetryableError
retryableErrors == {"NETWORK_ERROR", "TIMEOUT_ERROR", "RPC_ERROR"}

isRetryableError(error) ==
    \E code \in retryableErrors :
        error.code = code \/ Includes(error.message, code)

\* The failures an operation can reject with (provider faults, with and
\* without a code), and the values it can resolve with.
Causes ==
    { [code |-> "NETWORK_ERROR",      message |-> <<"network", "unreachable">>],
      [code |-> "INSUFFICIENT_FUNDS", message |-> <<"insufficient", "funds">>],
      [code |-> "CALL_EXCEPTION",     message |-> <<"execution", "reverted">>],
      [code |-> "",                   message |-> <<"upstream", "RPC_ERROR">>] }

Values == {"a", "b"}

\* what submitting a transaction can fail with, and what waiting for its receipt
\* can fail with (a revert, or the provider failing while it polls)
SubmitCauses == Causes
WaitCauses == {c \in Causes : c.code \in {"CALL_EXCEPTION", "NETWORK_ERROR"}}

\* ------------------------------------------------------------------ retryWithBackoff
\* a plausible slip: the last attempt taken to be i === maxRetries
IsLastAttempt_OffByOne(idx, max) == idx = max

\* src/unnamed/part_000:498  if (i === maxRetries - 1)
IsLastAttempt(idx, max) == idx = max - 1

\* a plausible slip: the exponent counted from 1
BackoffDelay_FromOne(base, idx) == base * 2^(idx + 1)

\* src/unnamed/part_000:502  baseDelay * Math.pow(2, i)
BackoffDelay(base, idx) == base * 2^idx

\* src/unnamed/part_000:488  baseDelay: number = 1000
DefaultBaseDelay == 1000

\* src/unnamed/part_000:487  maxRetries: number = 3
DefaultMaxRetries == 3

\* retryWithBackoff has not been called
RetryIdle ==
    /\ maxRetries = 0
    /\ baseDelay = 0
    /\ rPc = "idle"
    /\ i = 0
    /\ lastError = Undefined
    /\ rResult = Undefined
    /\ rCalls = 0
    /\ rSleeps = <<>>
    /\ rHist = <<>>

\* retryWithBackoff(fn, maxRetries, baseDelay) has just been called
RetryInit ==
    /\ maxRetries \in (0 - 1)..MaxRetriesHi
    /\ baseDelay \in {1, DefaultBaseDelay}
    /\ rPc = "loop"
    /\ i = 0
    /\ lastError = Undefined
    /\ rResult = Undefined
    /\ rCalls = 0
    /\ rSleeps = <<>>
    /\ rHist = <<>>

\* a plausible slip: a do-while loop, whose body runs once before the
\* condition is first looked at
RetryInvoke_DoWhile ==
    /\ rPc = "loop"
    /\ (i < maxRetries \/ rCalls = 0)
    /\ rCalls' = rCalls + 1
    /\ rPc' = "await"
    /\ UNCHANGED <<maxRetries, baseDelay, i, lastError, rResult, rSleeps, rHist>>
    /\ UNCHANGED <<timeoutVars, execVars, readVars, normVars, netVars, sdkVars, metaVars, gasVars>>

\* for (...; i < maxRetries; ...) { try { return await fn();
RetryInvoke ==
    /\ rPc = "loop"
    /\ i < maxRetries
    /\ rCalls' = rCalls + 1
    /\ rPc' = "await"
    /\ UNCHANGED <<maxRetries, baseDelay, i, lastError, rResult, rSleeps, rHist>>
    /\ UNCHANGED <<timeoutVars, execVars, readVars, normVars, netVars, sdkVars, metaVars, gasVars>>

\* the loop condition fails: throw lastError!
RetryLoopExit ==
    /\ rPc = "loop"
    /\ ~(i < maxRetries)
    /\ rPc' = "thrown"
    /\ rResult' = lastError
    /\ UNCHANGED <<maxRetries, baseDelay, i, lastError, rCalls, rSleeps, rHist>>
    /\ UNCHANGED <<timeoutVars, execVars, readVars, normVars, netVars, sdkVars, metaVars, gasVars>>

\* fn() resolves: return its value
RetryFnResolves(v) ==
    /\ rPc = "await"
    /\ rHist' = Append(rHist, Resolved(v))
    /\ rPc' = "returned"
    /\ rResult' = v
    /\ UNCHANGED <<maxRetries, baseDelay, i, lastError, rCalls, rSleeps>>
    /\ UNCHANGED <<timeoutVars, execVars, readVars, normVars, netVars, sdkVars, metaVars, gasVars>>

\* fn() rejects: the catch block, up to its throw or its await of the sleep
RetryFnRejects(e) ==
    /\ rPc = "await"
    /\ rHist' = Append(rHist, Rejected(e))
    /\ lastError' = e
    /\ IF IsLastAttempt(i, maxRetries)
          THEN /\ rPc' = "thrown"
               /\ rResult' = e
               /\ UNCHANGED rSleeps
          ELSE /\ rPc' = "sleep"
               /\ rSleeps' = Append(rSleeps, BackoffDelay(baseDelay, i))
               /\ UNCHANGED rResult
    /\ UNCHANGED <<maxRetries, baseDelay, i, rCalls>>
    /\ UNCHANGED <<timeoutVars, execVars, readVars, normVars, netVars, sdkVars, metaVars, gasVars>>

\* the sleep's timer fires: i++ and back to the loop condition
RetrySleepDone ==
    /\ rPc = "sleep"
    /\ i' = i + 1
    /\ rPc' = "loop"
    /\ UNCHANGED <<maxRetries, baseDelay, lastError, rResult, rCalls, rSleeps, rHist>>
    /\ UNCHANGED <<timeoutVars, execVars, readVars, normVars, netVars, sdkVars, metaVars, gasVars>>

RetryNext ==
    \/ RetryInvoke
    \/ RetryLoopExit
    \/ \E v \in Values : RetryFnResolves(v)
    \/ \E c \in Causes : RetryFnRejects(Err(c.code, c.message, rCalls))
    \/ RetrySleepDone

\* ------------------------------------------------------------------ withTimeout
\* withTimeout has not been called
TimeoutIdle ==
    /\ timeoutMs = 0
    /\ clock = 0
    /\ tOp = Pending
    /\ tTimer = "none"
    /\ tRace = Pending
    /\ tVia = "none"

\* withTimeout(promise, timeoutMs) has just been called: the executor of the
\* second promise has run setTimeout, and Promise.race is pending
TimeoutInit ==
    /\ timeoutMs \in 1..MaxTimeoutMs
    /\ clock = 0
    /\ tOp = Pending
    /\ tTimer = "armed"
    /\ tRace = Pending
    /\ tVia = "none"

\* src/unnamed/part_000:520  new Error('Operation timed out'): a plain Error,
\* which has no code property
TimedOutError == Err("", <<"Operation", "timed", "out">>, 0)

\* a plausible slip: the race following whichever input settled last
RaceSettle_LastWins(race, settlement) == settlement

\* src/unnamed/part_000:517  Promise.race: the first input to settle decides,
\* and a settled promise never changes
RaceSettle(race, settlement) == IF race = Pending THEN settlement ELSE race

\* what the promise passed in can settle with: a value, a provider fault, or
\* a LicenseChainError of its own
OpSettlements ==
    {Resolved(v) : v \in Values}
    \cup {Rejected(Err(c.code, c.message, 1)) : c \in Causes}
    \cup {Rejected(Err("TIMEOUT_ERROR", <<"request", "timeout">>, 1))}

\* time passes; an armed timer fires no later than the tick it is due on
TimeoutTick ==
    /\ tTimer \in {"armed", "fired"}
    /\ clock < MaxClock
    /\ tTimer = "armed" => clock < timeoutMs
    /\ clock' = clock + 1
    /\ UNCHANGED <<timeoutMs, tOp, tTimer, tRace, tVia>>
    /\ UNCHANGED <<retryVars, execVars, readVars, normVars, netVars, sdkVars, metaVars, gasVars>>

\* the promise passed in settles; the race follows it if still pending
TimeoutOpSettles(settlement) ==
    /\ tTimer \in {"armed", "fired"}
    /\ tOp = Pending
    /\ tOp' = settlement
    /\ tRace' = RaceSettle(tRace, settlement)
    /\ tVia' = IF tVia = "none" THEN "op" ELSE tVia
    /\ UNCHANGED <<timeoutMs, clock, tTimer>>
    /\ UNCHANGED <<retryVars, execVars, readVars, normVars, netVars, sdkVars, metaVars, gasVars>>

\* the setTimeout callback runs: reject(new Error('Operation timed out')).
\* Nothing calls clearTimeout, so the timer stays armed until it is due.
TimeoutTimerFires ==
    /\ tTimer = "armed"
    /\ clock >= timeoutMs
    /\ tTimer' = "fired"
    /\ tRace' = RaceSettle(tRace, Rejected(TimedOutError))
    /\ tVia' = IF tVia = "none" THEN "timer" ELSE tVia
    /\ UNCHANGED <<timeoutMs, clock, tOp>>
    /\ UNCHANGED <<retryVars, execVars, readVars, normVars, netVars, sdkVars, metaVars, gasVars>>

TimeoutNext ==
    \/ TimeoutTick
    \/ \E s \in OpSettlements : TimeoutOpSettles(s)
    \/ TimeoutTimerFires

\* ------------------------------------------------------------------ Error Normalizer
\* src/src/errors.ts:57  new LicenseChainError(code, message, details)
LicenseChainError(code, message, details) ==
    [kind |-> "LicenseChainError", code |-> code, message |-> message, details |-> details]

\* a plausible slip: the code of the cause is not looked at
fromEthersError_AllUnknown(error) ==
    LicenseChainError("UNKNOWN_ERROR",
                      IF error.message # <<>> THEN error.message
                                              ELSE <<"Unknown", "error", "occurred">>,
                      [originalError |-> error])

\* src/src/errors.ts:69  LicenseChainError.fromEthersError
fromEthersError(error) ==
    IF error.code = "INSUFFICIENT_FUNDS" THEN
        LicenseChainError("INSUFFICIENT_FUNDS", <<"Insufficient", "funds", "for", "transaction">>,
                          [originalError |-> error])
    ELSE IF error.code = "UNPREDICTABLE_GAS_LIMIT" THEN
        LicenseChainError("GAS_ESTIMATION_FAILED", <<"Gas", "estimation", "failed">>,
                          [originalError |-> error])
    ELSE IF error.code = "CALL_EXCEPTION" THEN
        LicenseChainError("TRANSACTION_REVERTED", <<"Transaction", "reverted">>,
                          [originalError |-> error])
    ELSE IF error.code = "NETWORK_ERROR" THEN
        LicenseChainError("NETWORK_ERROR", <<"Network", "error", "occurred">>,
                          [originalError |-> error])
    ELSE
        LicenseChainError("UNKNOWN_ERROR",
                          IF error.message # <<>> THEN error.message
                                                  ELSE <<"Unknown", "error", "occurred">>,
                          [originalError |-> error])

\* a plausible slip: the two JSON-RPC codes taken for one another
fromRpcError_SwappedCodes(error) ==
    IF error.code = "-32603" THEN
        LicenseChainError("VALIDATION_ERROR", <<"Invalid", "parameters">>,
                          [originalError |-> error])
    ELSE IF error.code = "-32602" THEN
        LicenseChainError("RPC_ERROR", <<"Internal", "JSON-RPC", "error">>,
                          [originalError |-> error])
    ELSE IF error.code = "-32000" THEN
        LicenseChainError("TRANSACTION_FAILED", <<"Transaction", "failed">>,
                          [originalError |-> error])
    ELSE
        LicenseChainError("RPC_ERROR",
                          IF error.message # <<>> THEN error.message
                                                  ELSE <<"RPC", "error", "occurred">>,
                          [originalError |-> error])

\* a plausible slip: the fallback of fromEthersError copied into fromRpcError
fromRpcError_UnknownFallback(error) ==
    IF error.code = "-32603" THEN
        LicenseChainError("RPC_ERROR", <<"Internal", "JSON-RPC", "error">>,
                          [originalError |-> error])
    ELSE IF error.code = "-32602" THEN
        LicenseChainError("VALIDATION_ERROR", <<"Invalid", "parameters">>,
                          [originalError |-> error])
    ELSE IF error.code = "-32000" THEN
        LicenseChainError("TRANSACTION_FAILED", <<"Transaction", "failed">>,
                          [originalError |-> error])
    ELSE
        LicenseChainError("UNKNOWN_ERROR",
                          IF error.message # <<>> THEN error.message
                                                  ELSE <<"Unknown", "error", "occurred">>,
                          [originalError |-> error])

\* src/src/errors.ts:109  LicenseChainError.fromRpcError. A numeric code is
\* written as its decimal numeral; no error drawn has a string code that
\* spells a number.
fromRpcError(error) ==
    IF error.code = "-32603" THEN
        LicenseChainError("RPC_ERROR", <<"Internal", "JSON-RPC", "error">>,
                          [originalError |-> error])
    ELSE IF error.code = "-32602" THEN
        LicenseChainError("VALIDATION_ERROR", <<"Invalid", "parameters">>,
                          [originalError |-> error])
    ELSE IF error.code = "-32000" THEN
        LicenseChainError("TRANSACTION_FAILED", <<"Transaction", "failed">>,
                          [originalError |-> error])
    ELSE
        LicenseChainError("RPC_ERROR",
                          IF error.message # <<>> THEN error.message
                                                  ELSE <<"RPC", "error", "occurred">>,
                          [originalError |-> error])

\* ------------------------------------------------------------------ mutating calls
Calls == 1..NumCalls

\* src/src/LicenseContract.ts:41-315  the methods that send a transaction. All
\* eight have the same body but for the contract method called and its
\* arguments: tx = await this.contract.<method>(..., {gasLimit, gasPrice});
\* receipt = await tx.wait(); return {hash, blockNumber, gasUsed, status}
ContractMethods ==
    {"mintLicense", "batchMintLicenses", "transferLicense", "revokeLicense",
     "grantRole", "revokeRole", "pause", "unpause"}

\* src/unnamed/part_000:38-149  the three deploy methods, alike but for the
\* factory's ABI and arguments: contract = await contractFactory.deploy(...);
\* await contract.waitForDeployment(); return new LicenseContract(...)
DeployMethods ==
    {"deployLicenseContract", "deployMultiSigLicenseContract",
     "deployUpgradeableLicenseContract"}

MutatingOps == ContractMethods \cup DeployMethods

\* which of the two bodies a method runs; a call's state keeps this
CodePath(op) == IF op \in DeployMethods THEN "deploy" ELSE "method"

NoResult == [kind |-> "none"]

\* no receipt was read (deploy awaits waitForDeployment(), which gives none)
NoReceipt == [blockNumber |-> 0, gasUsed |-> 0]

\* BigInt.prototype.toString: the decimal digits of n, most significant first
RECURSIVE toString(_)
toString(n) == IF n < 10 THEN <<n>> ELSE Append(toString(n \div 10), n % 10)

GasUsedValues == {21000, 65432}

\* src/src/LicenseContract.ts:55  tx.wait() is called without an argument; the
\* confirmations it then waits for is its parameter's default, one
WaitConfirms == 1

\* the confirmations of a mined transaction: its own block and those after it
Confirmations(tx) == IF tx.block = 0 THEN 0 ELSE height - tx.block + 1

\* a plausible slip: the result built as for a transaction not yet mined
TransactionResult_Pending(hash, receipt) ==
    [kind |-> "TransactionResult",
     hash |-> hash,
     blockNumber |-> receipt.blockNumber,
     gasUsed |-> toString(receipt.gasUsed),
     status |-> "pending"]

\* src/src/LicenseContract.ts:57  the TransactionResult the methods return
TransactionResult(hash, receipt) ==
    [kind |-> "TransactionResult",
     hash |-> hash,
     blockNumber |-> receipt.blockNumber,
     gasUsed |-> toString(receipt.gasUsed),
     status |-> "confirmed"]

\* src/unnamed/part_000:66  new LicenseContract(contractAddress, wallet, config)
NewLicenseContract(hash) == [kind |-> "LicenseContract", address |-> hash]

\* src/src/types.ts:9  confirmations?: number, as configured
ConfirmationsValues == {1, 2}

\* an SDK object and a LicenseContract exist, with a wallet; no call is running
ExecInit ==
    /\ config \in [confirmations : ConfirmationsValues]
    /\ callPc = [c \in Calls |-> "idle"]
    /\ callOp = [c \in Calls |-> "none"]
    /\ callTx = [c \in Calls |-> 0]
    /\ callResult = [c \in Calls |-> NoResult]
    /\ callSubmits = [c \in Calls |-> 0]
    /\ callStage = [c \in Calls |-> "none"]
    /\ callObserved = [c \in Calls |-> 0]
    /\ callReceipt = [c \in Calls |-> NoReceipt]
    /\ callLost = [c \in Calls |-> FALSE]
    /\ txs = <<>>
    /\ height = 0

\* no SDK object exists
ExecIdle ==
    /\ config = [confirmations |-> 1]
    /\ callPc = [c \in Calls |-> "idle"]
    /\ callOp = [c \in Calls |-> "none"]
    /\ callTx = [c \in Calls |-> 0]
    /\ callResult = [c \in Calls |-> NoResult]
    /\ callSubmits = [c \in Calls |-> 0]
    /\ callStage = [c \in Calls |-> "none"]
    /\ callObserved = [c \in Calls |-> 0]
    /\ callReceipt = [c \in Calls |-> NoReceipt]
    /\ callLost = [c \in Calls |-> FALSE]
    /\ txs = <<>>
    /\ height = 0

\* the method is called: it invokes the contract method (contractFactory.deploy
\* for deploy) and awaits the transaction
ExecStart(c, op) ==
    /\ callPc[c] = "idle"
    /\ callPc' = [callPc EXCEPT ![c] = "submitting"]
    /\ callOp' = [callOp EXCEPT ![c] = CodePath(op)]
    /\ callSubmits' = [callSubmits EXCEPT ![c] = @ + 1]
    /\ UNCHANGED <<config, callTx, callResult, callStage, callObserved, callReceipt, callLost, txs, height>>
    /\ UNCHANGED <<retryVars, timeoutVars, readVars, normVars, netVars, sdkVars, metaVars, gasVars>>

\* a plausible slip: the transaction kept in a field that the calls share
ExecSubmitOk_SharedTx(c) ==
    /\ callPc[c] = "submitting"
    /\ ~callLost[c]
    /\ txs' = Append(txs, [call |-> c, block |-> 0, status |-> 1])
    /\ callTx' = [d \in Calls |-> IF d = c \/ callPc[d] = "waiting" THEN Len(txs) + 1
                                                                   ELSE callTx[d]]
    /\ callPc' = [callPc EXCEPT ![c] = "waiting"]
    /\ UNCHANGED <<config, callOp, callResult, callSubmits, callStage, callObserved, callReceipt,
                   callLost, height>>
    /\ UNCHANGED <<retryVars, timeoutVars, readVars, normVars, netVars, sdkVars, metaVars, gasVars>>

\* the signer broadcasts the transaction and returns it; the method goes on to
\* await tx.wait() (contract.waitForDeployment() for deploy)
ExecSubmitOk(c) ==
    /\ callPc[c] = "submitting"
    /\ ~callLost[c]
    /\ txs' = Append(txs, [call |-> c, block |-> 0, status |-> 1])
    /\ callTx' = [callTx EXCEPT ![c] = Len(txs) + 1]
    /\ callPc' = [callPc EXCEPT ![c] = "waiting"]
    /\ UNCHANGED <<config, callOp, callResult, callSubmits, callStage, callObserved, callReceipt,
                   callLost, height>>
    /\ UNCHANGED <<retryVars, timeoutVars, readVars, normVars, netVars, sdkVars, metaVars, gasVars>>

\* the submission throws: catch (error) { throw fromEthersError(error) }
ExecSubmitFails(c, cause) ==
    /\ callPc[c] = "submitting"
    /\ ~callLost[c]
    /\ callPc' = [callPc EXCEPT ![c] = "rejected"]
    /\ callStage' = [callStage EXCEPT ![c] = "submit"]
    /\ callResult' = [callResult EXCEPT ![c] = fromEthersError(cause)]
    /\ UNCHANGED <<config, callOp, callTx, callSubmits, callObserved, callReceipt, callLost, txs, height>>
    /\ UNCHANGED <<retryVars, timeoutVars, readVars, normVars, netVars, sdkVars, metaVars, gasVars>>

\* tx.wait() resolves with the receipt once the transaction has WaitConfirms
\* confirmations: the method returns
ExecWaitOk(c, gasUsed) ==
    /\ callPc[c] = "waiting"
    /\ ~callLost[c]
    /\ txs[callTx[c]].status = 1
    /\ Confirmations(txs[callTx[c]]) >= WaitConfirms
    /\ callPc' = [callPc EXCEPT ![c] = "returned"]
    /\ callObserved' = [callObserved EXCEPT ![c] = Confirmations(txs[callTx[c]])]
    /\ callReceipt' = [callReceipt EXCEPT ![c] =
            IF callOp[c] = "deploy"
                THEN NoReceipt
                ELSE [blockNumber |-> txs[callTx[c]].block, gasUsed |-> gasUsed]]
    /\ callResult' = [callResult EXCEPT ![c] =
            IF callOp[c] = "deploy"
                THEN NewLicenseContract(callTx[c])
                ELSE TransactionResult(callTx[c], callReceipt'[c])]
    /\ UNCHANGED <<config, callOp, callTx, callSubmits, callStage, callLost, txs, height>>
    /\ UNCHANGED <<retryVars, timeoutVars, readVars, normVars, netVars, sdkVars, metaVars, gasVars>>

\* a plausible slip: a failed wait sends the method back to submit again
ExecWaitFails_Resubmit(c, cause) ==
    /\ callPc[c] = "waiting"
    /\ ~callLost[c]
    /\ cause.code = "CALL_EXCEPTION" =>
            (txs[callTx[c]].block # 0 /\ txs[callTx[c]].status = 0)
    /\ callPc' = [callPc EXCEPT ![c] = "submitting"]
    /\ callSubmits' = [callSubmits EXCEPT ![c] = @ + 1]
    /\ UNCHANGED <<config, callOp, callTx, callResult, callStage, callObserved, callReceipt, callLost,
                   txs, height>>
    /\ UNCHANGED <<retryVars, timeoutVars, readVars, normVars, netVars, sdkVars, metaVars, gasVars>>

\* tx.wait() throws (the transaction reverted: CALL_EXCEPTION; or the provider
\* failed while polling): catch (error) { throw fromEthersError(error) }
ExecWaitFails(c, cause) ==
    /\ callPc[c] = "waiting"
    /\ ~callLost[c]
    /\ cause.code = "CALL_EXCEPTION" =>
            (txs[callTx[c]].block # 0 /\ txs[callTx[c]].status = 0)
    /\ callPc' = [callPc EXCEPT ![c] = "rejected"]
    /\ callStage' = [callStage EXCEPT ![c] = "wait"]
    /\ callResult' = [callResult EXCEPT ![c] = fromEthersError(cause)]
    /\ UNCHANGED <<config, callOp, callTx, callSubmits, callObserved, callReceipt, callLost, txs, height>>
    /\ UNCHANGED <<retryVars, timeoutVars, readVars, normVars, netVars, sdkVars, metaVars, gasVars>>

\* the node stops answering the call's pending request
ExecDrop(c) ==
    /\ callPc[c] \in {"submitting", "waiting"}
    /\ ~callLost[c]
    /\ callLost' = [callLost EXCEPT ![c] = TRUE]
    /\ UNCHANGED <<config, callPc, callOp, callTx, callResult, callSubmits, callStage,
                   callObserved, callReceipt, txs, height>>
    /\ UNCHANGED <<retryVars, timeoutVars, readVars, normVars, netVars, sdkVars, metaVars, gasVars>>

\* a block is mined that includes transaction h, which succeeds or reverts
\* (a transaction is followed until the call that sent it has ended)
ChainMine(h, status) ==
    /\ h \in DOMAIN txs
    /\ txs[h].block = 0
    /\ callPc[txs[h].call] = "waiting"
    /\ ~callLost[txs[h].call]
    /\ height < MaxHeight
    /\ height' = height + 1
    /\ txs' = [txs EXCEPT ![h] = [@ EXCEPT !.block = height + 1, !.status = status]]
    /\ UNCHANGED <<config, callPc, callOp, callTx, callResult, callSubmits, callStage,
                   callObserved, callReceipt, callLost>>
    /\ UNCHANGED <<retryVars, timeoutVars, readVars, normVars, netVars, sdkVars, metaVars, gasVars>>

\* a block is mined on top (the chain is followed while a call awaits a receipt)
ChainAdvance ==
    /\ \E c \in Calls : callPc[c] = "waiting" /\ ~callLost[c]
    /\ height < MaxHeight
    /\ height' = height + 1
    /\ UNCHANGED <<config, callPc, callOp, callTx, callResult, callSubmits, callStage,
                   callObserved, callReceipt, callLost, txs>>
    /\ UNCHANGED <<retryVars, timeoutVars, readVars, normVars, netVars, sdkVars, metaVars, gasVars>>

\* the steps that move call c on
ExecCallStep(c) ==
    \/ ExecSubmitOk(c)
    \/ \E cause \in SubmitCauses : ExecSubmitFails(c, Err(cause.code, cause.message, 0))
    \/ \E gasUsed \in GasUsedValues : ExecWaitOk(c, gasUsed)
    \/ \E cause \in WaitCauses : ExecWaitFails(c, Err(cause.code, cause.message, 0))

ExecNext ==
    \/ \E c \in Calls, op \in MutatingOps : ExecStart(c, op)
    \/ \E c \in Calls : ExecCallStep(c)
    \/ \E c \in Calls : ExecDrop(c)
    \/ \E h \in DOMAIN txs, status \in {0, 1} : ChainMine(h, status)
    \/ ChainAdvance

\* ------------------------------------------------------------------ read methods
\* src/src/LicenseContract.ts:71-354  the methods that only read. Each awaits
\* one or more promises inside try { ... } catch (error) { throw
\* LicenseChainError.fromEthersError(error) }. A promise is either a call of
\* the ethers contract ("contract": it rejects with the provider's error) or a
\* call of another method of this class ("facade": that method's own catch
\* has run before the rejection arrives). estimateGasMintLicense
\* (LicenseContract.ts:359-379) awaits contract.mintLicense.estimateGas
\* ("estimateGas") and then provider.getFeeData ("provider"); the queries of
\* LicenseChainEthereum (part_000:172-209) await one call of this.provider.
Read(name, via) == [name |-> name, via |-> via]

ReadMethods ==
    {"verifyLicense", "getLicenseMetadata", "hasRole", "isPaused",
     "getLicenseVerification", "getLicenseInfo", "getContractInfo",
     "estimateGasMintLicense", "getGasPrice", "getCurrentBlockNumber", "getBalance"}

\* the promises a method awaits, in the order of its text
Reads(method) ==
    CASE method = "verifyLicense" -> <<Read("verifyLicense", "contract")>>
      [] method = "getLicenseMetadata" -> <<Read("getLicenseMetadata", "contract")>>
      [] method = "hasRole" -> <<Read("hasRole", "contract")>>
      [] method = "isPaused" -> <<Read("isPaused", "contract")>>
      [] method = "getLicenseVerification" ->
            <<Read("verifyLicense", "contract"), Read("getLicenseMetadata", "facade")>>
      [] method = "getLicenseInfo" ->
            <<Read("ownerOf", "contract"), Read("getLicenseMetadata", "facade"),
              Read("verifyLicense", "facade")>>
      [] method = "getContractInfo" ->
            <<Read("name", "contract"), Read("symbol", "contract"),
              Read("totalSupply", "contract"), Read("maxSupply", "contract"),
              Read("owner", "contract"), Read("isPaused", "facade")>>
      [] method = "estimateGasMintLicense" ->
            <<Read("mintLicense", "estimateGas"), Read("getFeeData", "provider")>>
      [] method = "getGasPrice" -> <<Read("getFeeData", "provider")>>
      [] method = "getCurrentBlockNumber" -> <<Read("getBlockNumber", "provider")>>
      [] method = "getBalance" -> <<Read("getBalance", "provider")>>

\* Promise.all([...]) issues every read at once; the others await one read
\* before they issue the next
Concurrent(method) == method \in {"getLicenseInfo", "getContractInfo"}

\* the error the awaited promise rejects with when its contract read fails
\* with cause: a read made through a method of this class has been through
\* that method's catch
ReadError(read, cause) ==
    IF read.via = "facade" THEN fromEthersError(cause) ELSE cause

\* a plausible slip: the ABI written without its view modifiers
stateMutability_NoViews(name) == "nonpayable"

\* src/src/LicenseContract.ts:385-402  the ABI's functions: "view" where the
\* fragment says view, "nonpayable" otherwise
stateMutability(name) ==
    IF name \in {"name", "symbol", "totalSupply", "maxSupply", "owner", "ownerOf",
                 "verifyLicense", "getLicenseMetadata", "hasRole", "isPaused"}
        THEN "view" ELSE "nonpayable"

\* whether issuing the read broadcasts a transaction: ethers' Contract runs
\* contract.f(...) as an eth_call when f is view and sends a transaction
\* otherwise; f.estimateGas(...) and the provider's queries send nothing
Sends(read) ==
    /\ read.via \in {"contract", "facade"}
    /\ stateMutability(read.name) # "view"

\* ---- bigint arithmetic on decimal digits ----
\* A bigint that may exceed the range of TLC's integers is held as the
\* sequence of its decimal digits, most significant first; <<>> stands for
\* null where a bigint may be absent.
Null == <<>>

\* digits * k, for a natural k
RECURSIVE BigTimes(_, _, _)
BigTimes(digits, k, carry) ==
    IF digits = <<>> THEN (IF carry = 0 THEN <<>> ELSE toString(carry))
    ELSE LET t == digits[Len(digits)] * k + carry
         IN  Append(BigTimes(SubSeq(digits, 1, Len(digits) - 1), k, t \div 10), t % 10)

\* BigInt(string) for the string of a natural that TLC's integers hold
RECURSIVE BigInt(_)
BigInt(digits) ==
    IF digits = <<>> THEN 0
    ELSE 10 * BigInt(SubSeq(digits, 1, Len(digits) - 1)) + digits[Len(digits)]

\* src/unnamed/part_000:400  calculateGasCost(gasLimit, gasPrice)
calculateGasCost(gasLimit, gasPrice) == BigTimes(gasPrice, BigInt(gasLimit), 0)

\* the decimal point in a string of digits
Point == -1

\* the decimals of ether in wei
EtherDecimals == 18

RECURSIVE StripTrailingZeros(_)
StripTrailingZeros(digits) ==
    IF Len(digits) > 1 /\ digits[Len(digits)] = 0
        THEN StripTrailingZeros(SubSeq(digits, 1, Len(digits) - 1))
        ELSE digits

\* ethers.formatEther(wei): the value in ether, "<whole>.<fraction>", the
\* fraction without trailing zeros but never empty
formatEther(wei) ==
    LET padded == [k \in 1..(EtherDecimals + 1 - Len(wei)) |-> 0] \o wei
        n == Len(padded)
    IN  SubSeq(padded, 1, n - EtherDecimals)
        \o <<Point>>
        \o StripTrailingZeros(SubSeq(padded, n - EtherDecimals + 1, n))

\* ethers.parseUnits('20', 'gwei')
TwentyGwei == <<2, 0>> \o [k \in 1..9 |-> 0]

\* what the provider and the node answer with
GasEstimates == GasUsedValues
FeeDatas == {[gasPrice |-> price] : price \in {Null, <<0>>, <<7>>, <<3, 0>> \o [k \in 1..9 |-> 0]}}
BlockNumbers == {0, 17}
Balances == {<<0>>, <<1>> \o [k \in 1..18 |-> 0], <<1, 5>> \o [k \in 1..17 |-> 0]}

\* the values a read can resolve with
ReadValues(read) ==
    CASE read.via = "estimateGas" -> GasEstimates
      [] read.name = "getFeeData" -> FeeDatas
      [] read.name = "getBlockNumber" -> BlockNumbers
      [] read.name = "getBalance" -> Balances
      [] OTHER -> Values

\* src/src/LicenseContract.ts:369-375  the GasEstimate built from the two answers
GasEstimate(gasEstimate, feeData) ==
    LET gasPriceWei == IF feeData.gasPrice = Null \/ feeData.gasPrice = <<0>>
                          THEN TwentyGwei ELSE feeData.gasPrice
    IN  [kind |-> "GasEstimate",
         gasLimit |-> toString(gasEstimate),
         gasPrice |-> gasPriceWei,
         totalCost |-> formatEther(BigTimes(gasPriceWei, gasEstimate, 0))]

\* the object a method returns from the values its reads resolved with
ReadReturn(method, reads) ==
    CASE method = "estimateGasMintLicense" -> GasEstimate(reads[1].value, reads[2].value)
      [] method = "getGasPrice" ->
            [kind |-> method,
             value |-> IF reads[1].value.gasPrice \in {Null, <<0>>}
                          THEN <<0>> ELSE reads[1].value.gasPrice]
      [] method = "getCurrentBlockNumber" -> [kind |-> method, value |-> reads[1].value]
      [] method = "getBalance" -> [kind |-> method, value |-> formatEther(reads[1].value)]
      [] OTHER -> [kind |-> method, values |-> [k \in DOMAIN reads |-> reads[k].value]]

ReadIdle ==
    /\ rdMethod = "none"
    /\ rdPc = "idle"
    /\ rdReads = <<>>
    /\ rdResult = NoResult
    /\ rdRaw = Undefined
    /\ rdSent = {}

\* a LicenseContract exists; no method has been called
ReadInit == ReadIdle

\* the method is called and runs to its first await, issuing the first read
\* (every read, under Promise.all); an earlier call has ended
ReadStart(method) ==
    /\ rdPc \in {"idle", "returned", "rejected"}
    /\ rdMethod' = method
    /\ rdPc' = "awaiting"
    /\ rdReads' = [k \in 1..Len(Reads(method)) |-> Pending]
    /\ rdResult' = NoResult
    /\ rdRaw' = Undefined
    /\ rdSent' = rdSent \cup
            {Reads(method)[k].name : k \in {j \in 1..Len(Reads(method)) :
                                              /\ Concurrent(method) \/ j = 1
                                              /\ Sends(Reads(method)[j])}}
    /\ UNCHANGED <<retryVars, timeoutVars, execVars, normVars, netVars, sdkVars, metaVars, gasVars>>

\* read k has been issued and has not settled
ReadIssued(k) ==
    /\ rdPc = "awaiting"
    /\ k \in DOMAIN rdReads
    /\ rdReads[k] = Pending
    /\ Concurrent(rdMethod) \/ \A j \in 1..(k - 1) : rdReads[j].state = "resolved"

\* read k resolves; when it is the last one the method returns
ReadResolves(k, v) ==
    /\ ReadIssued(k)
    /\ rdReads' = [rdReads EXCEPT ![k] = Resolved(v)]
    /\ IF \A j \in DOMAIN rdReads : j # k => rdReads[j].state = "resolved"
          THEN /\ rdPc' = "returned"
               /\ rdResult' = ReadReturn(rdMethod, rdReads')
          ELSE UNCHANGED <<rdPc, rdResult>>
    /\ rdSent' = IF ~Concurrent(rdMethod) /\ k < Len(rdReads) /\ Sends(Reads(rdMethod)[k + 1])
                    THEN rdSent \cup {Reads(rdMethod)[k + 1].name}
                    ELSE rdSent
    /\ UNCHANGED <<rdMethod, rdRaw>>
    /\ UNCHANGED <<retryVars, timeoutVars, execVars, normVars, netVars, sdkVars, metaVars, gasVars>>

\* read k fails at the provider with cause: the awaited promise (the
\* Promise.all, for the concurrent methods) rejects and the method's catch
\* throws fromEthersError of what it caught
ReadRejects(k, cause) ==
    /\ ReadIssued(k)
    /\ rdReads' = [rdReads EXCEPT ![k] = Rejected(ReadError(Reads(rdMethod)[k], cause))]
    /\ rdPc' = "rejected"
    /\ rdResult' = fromEthersError(rdReads'[k].error)
    /\ rdRaw' = cause
    /\ UNCHANGED <<rdMethod, rdSent>>
    /\ UNCHANGED <<retryVars, timeoutVars, execVars, normVars, netVars, sdkVars, metaVars, gasVars>>

ReadNext ==
    \/ \E method \in ReadMethods : ReadStart(method)
    \/ \E k \in DOMAIN rdReads : \E v \in ReadValues(Reads(rdMethod)[k]) : ReadResolves(k, v)
    \/ \E k \in DOMAIN rdReads, cause \in Causes :
            ReadRejects(k, Err(cause.code, cause.message, k))

\* ------------------------------------------------------------------ normalizer calls
\* the codes fromEthersError tests for, and those fromRpcError tests for
EthersCodes == {"INSUFFICIENT_FUNDS", "UNPREDICTABLE_GAS_LIMIT", "CALL_EXCEPTION", "NETWORK_ERROR"}
RpcCodes == {"-32603", "-32602", "-32000"}

\* the errors a provider hands over: the codes the two functions know, codes
\* they do not know ("-32601" method not found, "TIMEOUT"), no code at all;
\* each without a message, with one, and with one that quotes an upstream
\* fault by its code
NormCauses ==
    { Err(code, message, 0) :
        code \in EthersCodes \cup RpcCodes \cup {"-32601", "TIMEOUT", ""},
        message \in {<<>>, <<"provider", "said", "no">>, <<"upstream", "RPC_ERROR">>} }

NormEntries == {"fromEthersError", "fromRpcError"}

Normalize(entry, error) ==
    IF entry = "fromEthersError" THEN fromEthersError(error) ELSE fromRpcError(error)

NormIdle ==
    /\ nIn = Undefined
    /\ nVia = "none"
    /\ nOut = NoResult
    /\ nDepth = 0

\* a provider error has been caught; no normalizer has been called on it
NormInit ==
    /\ nIn \in NormCauses
    /\ nVia = "none"
    /\ nOut = NoResult
    /\ nDepth = 0

\* the error is passed to one of the two functions
NormApply(entry) ==
    /\ nDepth = 0
    /\ nVia' = entry
    /\ nOut' = Normalize(entry, nIn)
    /\ nDepth' = 1
    /\ UNCHANGED nIn
    /\ UNCHANGED <<retryVars, timeoutVars, execVars, readVars, netVars, sdkVars, metaVars, gasVars>>

\* the LicenseChainError returned is caught further up and passed to a
\* normalizer again (as the catch blocks of the methods that call other
\* methods of their class do)
NormReapply(entry) ==
    /\ nDepth >= 1
    /\ nDepth < MaxWraps
    /\ nIn' = nOut
    /\ nVia' = entry
    /\ nOut' = Normalize(entry, nOut)
    /\ nDepth' = nDepth + 1
    /\ UNCHANGED <<retryVars, timeoutVars, execVars, readVars, netVars, sdkVars, metaVars, gasVars>>

NormNext ==
    \/ \E entry \in NormEntries : NormApply(entry)
    \/ \E entry \in NormEntries : NormReapply(entry)

\* ------------------------------------------------------------------ getNetworkConfig
\* an optional argument that was passed
Some(v) == [value |-> v]

\* JavaScript truthiness of an optional string or number argument
TruthyString(x) == x # Undefined /\ x.value # ""
TruthyNumber(x) == x # Undefined /\ x.value # 0

\* what a function call ends with
Returned(v) == [threw |-> FALSE, value |-> v]
Thrown(e) == [threw |-> TRUE, error |-> e]

\* new Error(message): no code, not a LicenseChainError
PlainError(message) == [kind |-> "Error", message |-> message]

NetworkConfig(chainId, rpcUrl, explorerUrl, name) ==
    [kind |-> "NetworkConfig", chainId |-> chainId, rpcUrl |-> rpcUrl,
     explorerUrl |-> explorerUrl, name |-> name]

\* src/unnamed/part_000:305-342  the keys of configs
KnownNetworks == {"mainnet", "goerli", "sepolia", "polygon", "arbitrum", "optimism"}

\* src/unnamed/part_000:305-342  the literal each entry's rpcUrl falls back to
DefaultRpcUrl(network) ==
    CASE network = "mainnet"  -> "https://eth-mainnet.g.alchemy.com/v2/YOUR_KEY"
      [] network = "goerli"   -> "https://eth-goerli.g.alchemy.com/v2/YOUR_KEY"
      [] network = "sepolia"  -> "https://eth-sepolia.g.alchemy.com/v2/YOUR_KEY"
      [] network = "polygon"  -> "https://polygon-mainnet.g.alchemy.com/v2/YOUR_KEY"
      [] network = "arbitrum" -> "https://arb-mainnet.g.alchemy.com/v2/YOUR_KEY"
      [] network = "optimism" -> "https://opt-mainnet.g.alchemy.com/v2/YOUR_KEY"

\* rpcUrl || '<default>'
RpcUrlOr(rpcUrl, default) == IF TruthyString(rpcUrl) THEN rpcUrl.value ELSE default

\* src/unnamed/part_000:304-342  const configs, built from the argument rpcUrl
configs(rpcUrl) ==
    [network \in KnownNetworks |->
        CASE network = "mainnet" ->
                NetworkConfig(1, RpcUrlOr(rpcUrl, DefaultRpcUrl(network)),
                              "https://etherscan.io", "Ethereum Mainnet")
          [] network = "goerli" ->
                NetworkConfig(5, RpcUrlOr(rpcUrl, DefaultRpcUrl(network)),
                              "https://goerli.etherscan.io", "Goerli Testnet")
          [] network = "sepolia" ->
                NetworkConfig(11155111, RpcUrlOr(rpcUrl, DefaultRpcUrl(network)),
                              "https://sepolia.etherscan.io", "Sepolia Testnet")
          [] network = "polygon" ->
                NetworkConfig(137, RpcUrlOr(rpcUrl, DefaultRpcUrl(network)),
                              "https://polygonscan.com", "Polygon Mainnet")
          [] network = "arbitrum" ->
                NetworkConfig(42161, RpcUrlOr(rpcUrl, DefaultRpcUrl(network)),
                              "https://arbiscan.io", "Arbitrum One")
          [] network = "optimism" ->
                NetworkConfig(10, RpcUrlOr(rpcUrl, DefaultRpcUrl(network)),
                              "https://optimistic.etherscan.io", "Optimism")]

\* property names every object literal inherits from Object.prototype
ObjectPrototypeKeys == {"toString", "constructor"}

\* configs[network]: an own entry, an inherited member, or undefined
Lookup(table, key) ==
    IF key \in DOMAIN table THEN table[key]
    ELSE IF key \in ObjectPrototypeKeys THEN [kind |-> "function", name |-> key]
    ELSE Undefined

\* a plausible slip: a chainId that was passed replaces the entry's own
getNetworkConfig_ChainIdOverride(network, rpcUrl, chainId) ==
    IF network = "custom" /\ TruthyNumber(chainId) /\ TruthyString(rpcUrl) THEN
        Returned(NetworkConfig(chainId.value, rpcUrl.value,
                               "https://etherscan.io", "Custom Network"))
    ELSE LET entry == Lookup(configs(rpcUrl), network)
         IN  IF entry = Undefined
                THEN Thrown(PlainError(<<"Unsupported", "network:", network>>))
             ELSE IF entry.kind = "NetworkConfig" /\ TruthyNumber(chainId)
                THEN Returned([entry EXCEPT !.chainId = chainId.value])
             ELSE Returned(entry)

\* src/unnamed/part_000:299  getNetworkConfig
getNetworkConfig(network, rpcUrl, chainId) ==
    IF network = "custom" /\ TruthyNumber(chainId) /\ TruthyString(rpcUrl) THEN
        Returned(NetworkConfig(chainId.value, rpcUrl.value,
                               "https://etherscan.io", "Custom Network"))
    ELSE LET entry == Lookup(configs(rpcUrl), network)
         IN  IF entry = Undefined
                THEN Thrown(PlainError(<<"Unsupported", "network:", network>>))
                ELSE Returned(entry)

\* the arguments drawn: every key of configs, "custom", names that are no key
\* (one of them a member of Object.prototype); rpcUrl and chainId left out,
\* passed empty / zero, passed with a value
NetworkNames == KnownNetworks \cup {"custom", "ropsten", "Mainnet", "toString"}
RpcUrls == {Undefined, Some(""), Some("http://localhost:8545")}
ChainIds == {Undefined, Some(0), Some(1), Some(1337)}

NetIdle ==
    /\ argNetwork = "none"
    /\ argRpcUrl = Undefined
    /\ argChainId = Undefined
    /\ netPc = "idle"
    /\ netResult = NoResult

\* getNetworkConfig is about to be called with these arguments
NetInit ==
    /\ argNetwork \in NetworkNames
    /\ argRpcUrl \in RpcUrls
    /\ argChainId \in ChainIds
    /\ netPc = "called"
    /\ netResult = NoResult

\* the call runs
NetResolve ==
    /\ netPc = "called"
    /\ netPc' = "done"
    /\ netResult' = getNetworkConfig(argNetwork, argRpcUrl, argChainId)
    /\ UNCHANGED <<argNetwork, argRpcUrl, argChainId>>
    /\ UNCHANGED <<retryVars, timeoutVars, execVars, readVars, normVars, sdkVars, metaVars, gasVars>>

NetNext == NetResolve

\* ------------------------------------------------------------------ JSON
\* JavaScript values that JSON carries: a string, an integer, an array, an
\* object as the list of its own properties in insertion order
Str(s) == [str |-> s]
Num(n) == [num |-> n]
Arr(elements) == [arr |-> elements]
Obj(members) == [obj |-> members]
Member(key, value) == [key |-> key, value |-> value]

\* the text of a JSON document, as its tokens: punctuation, string literals,
\* number literals (their decimal digits)
Punct(p) == [p |-> p]
Numeral(digits) == [numeral |-> digits]

\* JSON.stringify(value)
RECURSIVE stringify(_), stringifyElements(_), stringifyMembers(_)
stringify(value) ==
    IF "str" \in DOMAIN value THEN <<value>>
    ELSE IF "num" \in DOMAIN value THEN <<Numeral(toString(value.num))>>
    ELSE IF "arr" \in DOMAIN value
        THEN <<Punct("[")>> \o stringifyElements(value.arr) \o <<Punct("]")>>
    ELSE <<Punct("{")>> \o stringifyMembers(value.obj) \o <<Punct("}")>>

stringifyElements(elements) ==
    IF elements = <<>> THEN <<>>
    ELSE stringify(Head(elements))
         \o (IF Len(elements) > 1
                THEN <<Punct(",")>> \o stringifyElements(Tail(elements))
                ELSE <<>>)

stringifyMembers(members) ==
    IF members = <<>> THEN <<>>
    ELSE <<Str(Head(members).key), Punct(":")>> \o stringify(Head(members).value)
         \o (IF Len(members) > 1
                THEN <<Punct(",")>> \o stringifyMembers(Tail(members))
                ELSE <<>>)

\* the parser of JSON.parse: the value read off the front of the tokens and
\* the tokens left, or a failure
ParseFail == [ok |-> FALSE, value |-> Undefined, rest |-> <<>>]
Parsed(value, rest) == [ok |-> TRUE, value |-> value, rest |-> rest]

RECURSIVE parseValue(_), parseElements(_, _), parseMembers(_, _)
parseValue(tokens) ==
    IF tokens = <<>> THEN ParseFail
    ELSE LET t == Head(tokens)
         IN  IF "str" \in DOMAIN t THEN Parsed(t, Tail(tokens))
             ELSE IF "numeral" \in DOMAIN t THEN Parsed(Num(BigInt(t.numeral)), Tail(tokens))
             ELSE IF t = Punct("[") THEN
                 IF Len(tokens) >= 2 /\ tokens[2] = Punct("]")
                     THEN Parsed(Arr(<<>>), SubSeq(tokens, 3, Len(tokens)))
                     ELSE parseElements(Tail(tokens), <<>>)
             ELSE IF t = Punct("{") THEN
                 IF Len(tokens) >= 2 /\ tokens[2] = Punct("}")
                     THEN Parsed(Obj(<<>>), SubSeq(tokens, 3, Len(tokens)))
                     ELSE parseMembers(Tail(tokens), <<>>)
             ELSE ParseFail

\* the elements of an array after "[" or ",", up to its "]"
parseElements(tokens, done) ==
    LET element == parseValue(tokens)
    IN  IF ~element.ok \/ element.rest = <<>> THEN ParseFail
        ELSE IF Head(element.rest) = Punct(",")
            THEN parseElements(Tail(element.rest), Append(done, element.value))
        ELSE IF Head(element.rest) = Punct("]")
            THEN Parsed(Arr(Append(done, element.value)), Tail(element.rest))
        ELSE ParseFail

\* the members of an object after "{" or ",", up to its "}"
parseMembers(tokens, done) ==
    IF Len(tokens) < 3 \/ "str" \notin DOMAIN tokens[1] \/ tokens[2] # Punct(":")
        THEN ParseFail
    ELSE LET member == parseValue(SubSeq(tokens, 3, Len(tokens)))
         IN  IF ~member.ok \/ member.rest = <<>> THEN ParseFail
             ELSE IF Head(member.rest) = Punct(",")
                 THEN parseMembers(Tail(member.rest),
                                   Append(done, Member(tokens[1].str, member.value)))
             ELSE IF Head(member.rest) = Punct("}")
                 THEN Parsed(Obj(Append(done, Member(tokens[1].str, member.value))),
                             Tail(member.rest))
             ELSE ParseFail

\* new SyntaxError(...): no code
SyntaxError == [kind |-> "SyntaxError", code |-> "", message |-> <<"Unexpected", "token">>]

\* JSON.parse(text)
JSONparse(text) ==
    LET parsed == parseValue(text)
    IN  IF parsed.ok /\ parsed.rest = <<>> THEN Returned(parsed.value)
                                           ELSE Thrown(SyntaxError)

\* ------------------------------------------------------------------ license metadata
\* src/src/types.ts:28-34  a LicenseMetadata object: software, version,
\* features, and expiresAt / customData when they are given
LicenseMetadata(features, expiresAt, customData) ==
    Obj(<<Member("software", Str("app")), Member("version", Str("1.0")),
          Member("features", Arr(features))>>
        \o (IF expiresAt = Undefined THEN <<>> ELSE <<Member("expiresAt", Num(expiresAt.value))>>)
        \o (IF customData = Undefined THEN <<>> ELSE <<Member("customData", customData.value)>>))

\* the metadata drawn: features empty, single, several; expiresAt and
\* customData absent and present
Metadatas ==
    { LicenseMetadata(features, expiresAt, customData) :
        features \in {<<>>, <<Str("sso")>>, <<Str("sso"), Str("api")>>},
        expiresAt \in {Undefined, Some(1893456000)},
        customData \in {Undefined,
                        Some(Obj(<<Member("seats", Num(5)), Member("tier", Str("pro"))>>))} }

TokenIds == 1..MaxBatch

\* whom a token is minted to: odd tokens to one address, even ones to another
RecipientOf(tokenId) == IF tokenId % 2 = 1 THEN "0xA" ELSE "0xB"

\* the options drawn: one to MaxBatch entries, for different tokens in any order
LicenseLists ==
    { licenses \in UNION { [1..n -> [to : {"0xA", "0xB"}, tokenId : TokenIds,
                                     metadata : Metadatas]] : n \in 1..MaxBatch } :
        /\ \A k \in DOMAIN licenses : licenses[k].to = RecipientOf(licenses[k].tokenId)
        /\ \A j, k \in DOMAIN licenses : j # k => licenses[j].tokenId # licenses[k].tokenId }

\* a plausible slip: every entry of the batch given the first entry's metadata
BatchArguments_FirstMetadata(licenses) ==
    [fn |-> "batchMintLicenses",
     tos |-> [k \in DOMAIN licenses |-> licenses[k].to],
     tokenIds |-> [k \in DOMAIN licenses |-> licenses[k].tokenId],
     metadatas |-> [k \in DOMAIN licenses |-> stringify(licenses[1].metadata)]]

\* src/src/LicenseContract.ts:189-191  the three arrays batchMintLicenses passes
BatchArguments(licenses) ==
    [fn |-> "batchMintLicenses",
     tos |-> [k \in DOMAIN licenses |-> licenses[k].to],
     tokenIds |-> [k \in DOMAIN licenses |-> licenses[k].tokenId],
     metadatas |-> [k \in DOMAIN licenses |-> stringify(licenses[k].metadata)]]

\* src/src/LicenseContract.ts:43-48  the arguments mintLicense passes
MintArguments(options) ==
    [fn |-> "mintLicense",
     tos |-> <<options.to>>,
     tokenIds |-> <<options.tokenId>>,
     metadatas |-> <<stringify(options.metadata)>>]

\* the contract's storage after the call: token tokenIds[k] holds metadatas[k]
Stored(store, call) ==
    [t \in DOMAIN store \cup {call.tokenIds[k] : k \in DOMAIN call.tokenIds} |->
        IF \E k \in DOMAIN call.tokenIds : call.tokenIds[k] = t
            THEN call.metadatas[CHOOSE k \in DOMAIN call.tokenIds : call.tokenIds[k] = t]
            ELSE store[t]]

NoCall == [fn |-> "none"]
NoRead == [tokenId |-> 0]

MetaIdle ==
    /\ mtLicenses = <<>>
    /\ mtPc = "idle"
    /\ mtCall = NoCall
    /\ mtStore = <<>>
    /\ mtRead = NoRead

\* a LicenseContract exists, nothing is minted, the caller holds its options
MetaInit ==
    /\ mtLicenses \in LicenseLists
    /\ mtPc = "idle"
    /\ mtCall = NoCall
    /\ mtStore = <<>>
    /\ mtRead = NoRead

\* mintLicense(options) is called with the one entry and its transaction is mined
MetaMintLicense ==
    /\ mtPc = "idle"
    /\ Len(mtLicenses) = 1
    /\ mtCall' = MintArguments(mtLicenses[1])
    /\ mtStore' = Stored(mtStore, mtCall')
    /\ mtPc' = "minted"
    /\ UNCHANGED <<mtLicenses, mtRead>>
    /\ UNCHANGED <<retryVars, timeoutVars, execVars, readVars, normVars, netVars, sdkVars, gasVars>>

\* batchMintLicenses(licenses) is called and its transaction is mined
MetaBatchMint ==
    /\ mtPc = "idle"
    /\ mtCall' = BatchArguments(mtLicenses)
    /\ mtStore' = Stored(mtStore, mtCall')
    /\ mtPc' = "minted"
    /\ UNCHANGED <<mtLicenses, mtRead>>
    /\ UNCHANGED <<retryVars, timeoutVars, execVars, readVars, normVars, netVars, sdkVars, gasVars>>

\* getLicenseMetadata(tokenId): the contract returns the token's string and
\* the method returns JSON.parse of it, or throws fromEthersError of the
\* SyntaxError
MetaGetLicenseMetadata(tokenId) ==
    /\ mtPc = "minted"
    /\ tokenId \in DOMAIN mtStore
    /\ LET parsed == JSONparse(mtStore[tokenId])
       IN  mtRead' = [tokenId |-> tokenId,
                      result |-> IF parsed.threw THEN Thrown(fromEthersError(parsed.error))
                                                 ELSE parsed]
    /\ mtPc' = "read"
    /\ UNCHANGED <<mtLicenses, mtCall, mtStore>>
    /\ UNCHANGED <<retryVars, timeoutVars, execVars, readVars, normVars, netVars, sdkVars, gasVars>>

MetaNext ==
    \/ MetaMintLicense
    \/ MetaBatchMint
    \/ \E tokenId \in TokenIds : MetaGetLicenseMetadata(tokenId)

\* ------------------------------------------------------------------ LicenseChainEthereum
\* src/src/types.ts:1-10  the EthereumConfig values drawn: a key of configs,
\* "custom", a name that is no key; rpcUrl and chainId as for
\* getNetworkConfig; walletProvider and privateKey present or not
SdkConfigs ==
    [network : {"mainnet", "custom", "ropsten"},
     rpcUrl : RpcUrls,
     chainId : ChainIds,
     walletProvider : BOOLEAN,
     privateKey : BOOLEAN]

\* an address as the hex digits (0..15) after "0x"
AddressLength == 40
Addresses ==
    { [k \in 1..AddressLength |-> 10], [k \in 1..(AddressLength - 1) |-> 10], <<>> }

\* ethers.isAddress, for a string that starts with "0x"
isAddress(address) ==
    /\ Len(address) = AddressLength
    /\ \A k \in DOMAIN address : address[k] \in 0..15

\* src/src/errors.ts:141  LicenseChainError.invalidAddress
invalidAddress(address) ==
    LicenseChainError("INVALID_ADDRESS", <<"Invalid", "address:">>, [address |-> address])

\* src/unnamed/part_000:38-45, 159-164  thrown where this.wallet is not set
WalletNotInitialized ==
    LicenseChainError("UNAUTHORIZED", <<"Wallet", "not", "initialized.">>, Undefined)

SdkIdle ==
    /\ sdkConfig = [network |-> "none"]
    /\ sdkPc = "none"
    /\ sdkError = NoResult
    /\ networkConfig = Undefined
    /\ provider = "none"
    /\ wallet = FALSE
    /\ gcPc = "idle"
    /\ gcResult = NoResult
    /\ dpPc = "idle"
    /\ dpMethod = "none"
    /\ dpResult = NoResult

\* new LicenseChainEthereum(config) is about to run
SdkInit ==
    /\ sdkConfig \in SdkConfigs
    /\ sdkPc = "new"
    /\ sdkError = NoResult
    /\ networkConfig = Undefined
    /\ provider = "none"
    /\ wallet = FALSE
    /\ gcPc = "idle"
    /\ gcResult = NoResult
    /\ dpPc = "idle"
    /\ dpMethod = "none"
    /\ dpResult = NoResult

\* src/unnamed/part_000:13-33  the constructor
SdkConstruct ==
    /\ sdkPc = "new"
    /\ LET resolved == getNetworkConfig(sdkConfig.network, sdkConfig.rpcUrl, sdkConfig.chainId)
       IN  IF resolved.threw THEN
               /\ sdkPc' = "thrown"
               /\ sdkError' = resolved.error
               /\ UNCHANGED <<networkConfig, provider, wallet>>
           ELSE IF ~sdkConfig.walletProvider /\ ~TruthyString(sdkConfig.rpcUrl) THEN
               /\ sdkPc' = "thrown"
               /\ sdkError' = LicenseChainError("CONFIGURATION_ERROR",
                                    <<"Either", "walletProvider", "or", "rpcUrl", "must",
                                      "be", "provided">>, Undefined)
               /\ UNCHANGED <<networkConfig, provider, wallet>>
           ELSE
               /\ sdkPc' = "constructed"
               /\ networkConfig' = resolved.value
               /\ provider' = IF sdkConfig.walletProvider THEN "Web3Provider"
                                                          ELSE "JsonRpcProvider"
               /\ wallet' = sdkConfig.privateKey
               /\ UNCHANGED sdkError
    /\ UNCHANGED <<sdkConfig, gcPc, gcResult, dpPc, dpMethod, dpResult>>
    /\ UNCHANGED <<retryVars, timeoutVars, execVars, readVars, normVars, netVars, metaVars, gasVars>>

\* src/unnamed/part_000:154-167  getContract(address)
GetContract(address) ==
    /\ sdkPc = "constructed"
    /\ gcPc = "idle"
    /\ gcPc' = "done"
    /\ gcResult' = IF ~isAddress(address) THEN Thrown(invalidAddress(address))
                   ELSE IF ~wallet THEN Thrown(WalletNotInitialized)
                   ELSE Returned([kind |-> "LicenseContract", address |-> address])
    /\ UNCHANGED <<sdkConfig, sdkPc, sdkError, networkConfig, provider, wallet,
                   dpPc, dpMethod, dpResult>>
    /\ UNCHANGED <<retryVars, timeoutVars, execVars, readVars, normVars, netVars, metaVars, gasVars>>

\* src/unnamed/part_000:38-149  deployLicenseContract,
\* deployMultiSigLicenseContract, deployUpgradeableLicenseContract: the same
\* body but for the factory's ABI and the constructor arguments.
\* contractFactory.deploy(...) and contract.waitForDeployment() resolve and
\* the contract is at contract.getAddress(), or one of them rejects with
\* the cause
Deploy(method, deployed, cause) ==
    /\ sdkPc = "constructed"
    /\ dpPc = "idle"
    /\ dpPc' = "done"
    /\ dpMethod' = method
    /\ dpResult' = IF ~wallet THEN Thrown(WalletNotInitialized)
                   ELSE IF deployed
                        THEN Returned([kind |-> "LicenseContract",
                                       address |-> [k \in 1..AddressLength |-> 11]])
                   ELSE Thrown(fromEthersError(cause))
    /\ UNCHANGED <<sdkConfig, sdkPc, sdkError, networkConfig, provider, wallet, gcPc, gcResult>>
    /\ UNCHANGED <<retryVars, timeoutVars, execVars, readVars, normVars, netVars, metaVars, gasVars>>

SdkNext ==
    \/ SdkConstruct
    \/ \E address \in Addresses : GetContract(address)
    \/ \E method \in DeployMethods, deployed \in BOOLEAN, cause \in Causes :
            Deploy(method, deployed, cause)

\* ------------------------------------------------------------------ gas parameters
\* src/src/types.ts:7-8  gasPrice?: string (wei, as decimal digits) and
\* gasLimit?: number of the EthereumConfig
GasConfigs ==
    [gasLimit : {Undefined, Some(0), Some(21000), Some(100000)},
     gasPrice : {Undefined, Some(<<>>), Some(<<2, 0>>)}]

\* src/src/LicenseContract.ts:49-52 (and 143-146, 166-169, 193-196, 217-220,
\* 241-244, 276-279, 299-302)  the last argument of every contract call: the
\* two fields of this.config as they are, undefined included.
\* src/unnamed/part_000:54-61 (and 92-101, 132-140)  contractFactory.deploy
\* is passed the constructor arguments only, no overrides
Overrides(op, cfg) ==
    IF op \in DeployMethods THEN Undefined
    ELSE [gasLimit |-> cfg.gasLimit, gasPrice |-> cfg.gasPrice]

GasIdle ==
    /\ gsConfig = Undefined
    /\ gsOp = "none"
    /\ gsPc = "idle"
    /\ gsOverrides = Undefined

\* an SDK object constructed with some gas configuration, nothing called
GasInit ==
    /\ gsConfig \in GasConfigs
    /\ gsOp = "none"
    /\ gsPc = "idle"
    /\ gsOverrides = Undefined

\* a mutating method or a deploy method up to its first await: the
\* transaction is handed to ethers with these overrides
GasSubmit(op) ==
    /\ gsPc = "idle"
    /\ gsPc' = "submitted"
    /\ gsOp' = op
    /\ gsOverrides' = Overrides(op, gsConfig)
    /\ UNCHANGED gsConfig
    /\ UNCHANGED <<retryVars, timeoutVars, execVars, readVars, normVars, netVars, sdkVars, metaVars>>

\* the rest of the method: the awaited promises resolve and it returns, or
\* one rejects and its catch throws
GasSettle(ok) ==
    /\ gsPc = "submitted"
    /\ gsPc' = IF ok THEN "returned" ELSE "rejected"
    /\ UNCHANGED <<gsConfig, gsOp, gsOverrides>>
    /\ UNCHANGED <<retryVars, timeoutVars, execVars, readVars, normVars, netVars, sdkVars, metaVars>>

GasNext ==
    \/ \E op \in MutatingOps : GasSubmit(op)
    \/ \E ok \in BOOLEAN : GasSettle(ok)

\* ------------------------------------------------------------------ specifications
\* one call of retryWithBackoff
InitRetry == RetryInit /\ TimeoutIdle /\ ExecIdle /\ ReadIdle /\ NormIdle /\ NetIdle /\ SdkIdle /\ MetaIdle /\ GasIdle
SpecRetry == InitRetry /\ [][RetryNext]_vars

\* one call of withTimeout
InitTimeout == TimeoutInit /\ RetryIdle /\ ExecIdle /\ ReadIdle /\ NormIdle /\ NetIdle /\ SdkIdle /\ MetaIdle /\ GasIdle
SpecTimeout == InitTimeout /\ [][TimeoutNext]_vars

\* concurrent mutating calls on one SDK object, and the chain
InitExec == ExecInit /\ RetryIdle /\ TimeoutIdle /\ ReadIdle /\ NormIdle /\ NetIdle /\ SdkIdle /\ MetaIdle /\ GasIdle
SpecExec == InitExec /\ [][ExecNext]_vars

\* one call of a read method of LicenseContract
InitRead == ReadInit /\ RetryIdle /\ TimeoutIdle /\ ExecIdle /\ NormIdle /\ NetIdle /\ SdkIdle /\ MetaIdle /\ GasIdle
SpecRead == InitRead /\ [][ReadNext]_vars

\* an error on its way through the normalizers
InitNorm == NormInit /\ RetryIdle /\ TimeoutIdle /\ ExecIdle /\ ReadIdle /\ NetIdle /\ SdkIdle /\ MetaIdle /\ GasIdle
SpecNorm == InitNorm /\ [][NormNext]_vars

\* one call of getNetworkConfig
InitNet == NetInit /\ RetryIdle /\ TimeoutIdle /\ ExecIdle /\ ReadIdle /\ NormIdle /\ SdkIdle /\ MetaIdle /\ GasIdle
SpecNet == InitNet /\ [][NetNext]_vars

\* one LicenseChainEthereum object: its construction, a getContract call and
\* a call of a deploy method
InitSdk == SdkInit /\ RetryIdle /\ TimeoutIdle /\ ExecIdle /\ ReadIdle /\ NormIdle /\ NetIdle /\ MetaIdle /\ GasIdle
SpecSdk == InitSdk /\ [][SdkNext]_vars

\* the gas parameters of one mutating call
InitGas == GasInit /\ RetryIdle /\ TimeoutIdle /\ ExecIdle /\ ReadIdle /\ NormIdle /\ NetIdle /\ SdkIdle /\ MetaIdle
SpecGas == InitGas /\ [][GasNext]_vars

\* licenses minted and their metadata read back
InitMeta == MetaInit /\ RetryIdle /\ TimeoutIdle /\ ExecIdle /\ ReadIdle /\ NormIdle /\ NetIdle /\ SdkIdle /\ GasIdle
SpecMeta == InitMeta /\ [][MetaNext]_vars

\* ------------------------------------------------------------------ claims: Retry Policy
\* the j-th invocation of fn rejected with a cause isRetryableError accepts
RetryableFailure(j) ==
    /\ rHist[j].state = "rejected"
    /\ isRetryableError(rHist[j].error)

RECURSIVE SumSeq(_)
SumSeq(s) == IF s = <<>> THEN 0 ELSE s[1] + SumSeq(Tail(s))

\* C1: for maxRetries >= 1, when the first attempt fails with a cause that
\* isRetryableError does not accept, fn is invoked exactly once, nothing is
\* slept, and that failure is what the call throws, at once.
C1_NonRetryableFailsAtOnce ==
    ( /\ maxRetries >= 1
      /\ Len(rHist) >= 1
      /\ rHist[1].state = "rejected"
      /\ ~isRetryableError(rHist[1].error) )
    => ( /\ rPc = "thrown"
         /\ rResult = rHist[1].error
         /\ rCalls = 1
         /\ rSleeps = <<>> )

\* C2: when fn fails with a retryable cause exactly k < maxRetries times and
\* then succeeds, the call returns that value after k+1 invocations, and the
\* sleeps are baseDelay*2^0, ..., baseDelay*2^(k-1), in that order, and no
\* others (their sum is baseDelay*(2^k - 1)).
C2_BackoffThenSuccess ==
    \A k \in 0..MaxRetriesHi :
        ( /\ k < maxRetries
          /\ Len(rHist) = k + 1
          /\ \A j \in 1..k : RetryableFailure(j)
          /\ rHist[k + 1].state = "resolved" )
        => ( /\ rPc = "returned"
             /\ rResult = rHist[k + 1].value
             /\ rCalls = k + 1
             /\ Len(rSleeps) = k
             /\ \A j \in 1..k : rSleeps[j] = baseDelay * 2^(j - 1)
             /\ SumSeq(rSleeps) = baseDelay * (2^k - 1) )

\* two retryable failures (one by code, one by message), then success
C2_Witness ==
    /\ rPc = "returned"
    /\ Len(rHist) = 3
    /\ RetryableFailure(1) /\ RetryableFailure(2)
    /\ rHist[1].error.code = "NETWORK_ERROR"
    /\ rHist[2].error.code = ""
    /\ rSleeps = <<DefaultBaseDelay, 2 * DefaultBaseDelay>>

\* C3: for maxRetries >= 1, fn is never invoked more than maxRetries times;
\* when every attempt fails with a retryable cause, the call throws after
\* exactly maxRetries invocations, with no sleep after the last one, and
\* throws the last attempt's own failure value.
C3_ExhaustionThrowsLast ==
    /\ (maxRetries >= 1 => rCalls <= maxRetries)
    /\ ( ( /\ maxRetries >= 1
            /\ Len(rHist) = maxRetries
            /\ \A j \in 1..maxRetries : RetryableFailure(j) )
          => ( /\ rPc = "thrown"
               /\ rResult = rHist[maxRetries].error
               /\ rResult.id = maxRetries
               /\ rCalls = maxRetries
               /\ Len(rSleeps) = maxRetries - 1 ) )

\* three retryable failures with maxRetries = 3: thrown, the third one's value
C3_Witness ==
    /\ maxRetries = 3
    /\ rPc = "thrown"
    /\ Len(rHist) = 3
    /\ \A j \in 1..3 : RetryableFailure(j)
    /\ rHist[1].error.code # rHist[3].error.code
    /\ rSleeps = <<baseDelay, 2 * baseDelay>>


\* ------------------------------------------------------------------ claims: Timeout Guard
\* C4: when the timer fires before the operation settles, withTimeout rejects
\* with a failure of kind TimeoutError (code TIMEOUT_ERROR), and the
\* operation's later settlement does not change that.
C4_TimerFirstIsTimeoutError ==
    tVia = "timer"
    => ( /\ tRace.state = "rejected"
         /\ tRace.error.code = "TIMEOUT_ERROR" )

\* C5: when the operation settles before the timer fires, withTimeout settles
\* with exactly the operation's own value or failure, and the timer firing
\* later does not change it.
C5_OperationFirstPropagates ==
    tVia = "op" => tRace = tOp

\* the operation rejected first, the timer has fired since
C5_Witness ==
    /\ tVia = "op"
    /\ tTimer = "fired"
    /\ tOp.state = "rejected"
    /\ tRace = tOp

\* C6: once withTimeout has settled through the operation, no timer the call
\* started is still armed.
C6_TimerDiscarded ==
    tVia = "op" => tTimer # "armed"

\* ------------------------------------------------------------------ claims: Transaction Executor
\* the transactions call c has broadcast
Broadcasts(c) == {h \in DOMAIN txs : txs[h].call = c}

InFlight(c) == callPc[c] \in {"submitting", "waiting"}

\* C7: a mutating call whose submission or confirmation is never answered
\* does not stay pending: a step that rejects it with TimeoutError is there
\* to be taken (the deadline of the Timeout Guard around the call).
C7_HungCallTimesOut ==
    \A c \in Calls :
        (InFlight(c) /\ callLost[c])
        => ENABLED ( /\ ExecNext
                     /\ callPc'[c] = "rejected"
                     /\ callResult'[c].code = "TIMEOUT_ERROR" )

\* C8: a mutating call is not failed by a transient (retryable) failure of
\* its submission while attempts of the Retry Policy remain: it is rejected
\* for such a failure only after maxAttempts submissions.
C8_TransientSubmitFailureRetried ==
    \A c \in Calls :
        ( /\ callPc[c] = "rejected"
          /\ callStage[c] = "submit"
          /\ isRetryableError(callResult[c].details.originalError) )
        => callSubmits[c] >= DefaultMaxRetries

\* C9: a call broadcasts at most one transaction, the one its submission
\* returned; a failed wait for confirmation leaves it at that one.
C9_NoResubmission ==
    \A c \in Calls :
        /\ Cardinality(Broadcasts(c)) <= 1
        /\ callTx[c] # 0 => Broadcasts(c) = {callTx[c]}
        /\ callSubmits[c] <= 1

\* a call whose wait for confirmation failed on the network, its transaction
\* broadcast and still unmined
C9_Witness ==
    \E c \in Calls :
        /\ callPc[c] = "rejected"
        /\ callStage[c] = "wait"
        /\ callResult[c].code = "NETWORK_ERROR"
        /\ Broadcasts(c) = {callTx[c]}
        /\ txs[callTx[c]].block = 0

\* C10: a call returns status Confirmed only once config.confirmations
\* confirmations of its transaction have been observed, and never returns
\* status Pending.
C10_ConfirmedAtConfiguredDepth ==
    \A c \in Calls :
        (callPc[c] = "returned" /\ callResult[c].kind = "TransactionResult")
        => /\ callResult[c].status # "pending"
           /\ callResult[c].status = "confirmed" => callObserved[c] >= config.confirmations

\* the number a string of decimal digits spells
RECURSIVE DecimalValue(_)
DecimalValue(digits) ==
    IF digits = <<>> THEN 0
    ELSE 10 * DecimalValue(SubSeq(digits, 1, Len(digits) - 1)) + digits[Len(digits)]

IsDecimalString(digits) ==
    /\ Len(digits) >= 1
    /\ \A k \in DOMAIN digits : digits[k] \in 0..9

C12_FailureIsNormalized ==
    \A c \in Calls :
        /\ callStage[c] # "none" => callPc[c] = "rejected"
        /\ callPc[c] = "rejected"
           => /\ callStage[c] \in {"submit", "wait"}
              /\ callResult[c].kind = "LicenseChainError"
              /\ LET cause == callResult[c].details.originalError
                 IN  /\ cause.code = "INSUFFICIENT_FUNDS"
                            => callResult[c].code = "INSUFFICIENT_FUNDS"
                     /\ cause.code = "CALL_EXCEPTION"
                            => callResult[c].code = "TRANSACTION_REVERTED"
                     /\ cause.code = "NETWORK_ERROR"
                            => callResult[c].code = "NETWORK_ERROR"
                     /\ cause.code = "" => callResult[c].code = "UNKNOWN_ERROR"
                     /\ callResult[c].code = fromEthersError(cause).code

\* one call rejected for insufficient funds at submission, another for its
\* reverted transaction at the wait
C12_Witness ==
    \E c, d \in Calls :
        /\ callPc[c] = "rejected" /\ callStage[c] = "submit"
        /\ callResult[c].code = "INSUFFICIENT_FUNDS"
        /\ callPc[d] = "rejected" /\ callStage[d] = "wait"
        /\ callResult[d].code = "TRANSACTION_REVERTED"
        /\ txs[callTx[d]].status = 0

\* ------------------------------------------------------------------ claims: Contract Facade reads
\* C13: getLicenseInfo reads owner, metadata and validity concurrently; when
\* any of the three fails, in whatever order they settle, the call is
\* rejected, returns no partial LicenseInfo, and the rejection's code is the
\* normalized code of the failing read's own cause (a reverted metadata read
\* gives TRANSACTION_REVERTED, as getLicenseMetadata alone does).
C13_GetLicenseInfoFailsAtomically ==
    rdMethod = "getLicenseInfo"
    => /\ (\E k \in DOMAIN rdReads : rdReads[k].state = "rejected")
            => /\ rdPc = "rejected"
               /\ rdResult.kind = "LicenseChainError"
               /\ rdResult.code = fromEthersError(rdRaw).code
               /\ rdRaw.code = "CALL_EXCEPTION" => rdResult.code = "TRANSACTION_REVERTED"
       /\ rdPc = "returned"
            => /\ rdResult.kind = "getLicenseInfo"
               /\ \A k \in DOMAIN rdReads : rdReads[k].state = "resolved"

\* C14: an error is normalized once: for every read method, the composite
\* ones included, the LicenseChainError thrown carries the provider's raw
\* cause in details, never another LicenseChainError, and its code is the
\* one the first normalization gave.
C14_NormalizedOnce ==
    rdPc = "rejected"
    => /\ rdResult.kind = "LicenseChainError"
       /\ rdResult.details.originalError = rdRaw
       /\ rdResult.code = fromEthersError(rdRaw).code

\* ------------------------------------------------------------------ claims: Error Normalizer
\* C16: a cause with a known provider fault code gets the documented code:
\* INSUFFICIENT_FUNDS -> INSUFFICIENT_FUNDS, UNPREDICTABLE_GAS_LIMIT ->
\* GAS_ESTIMATION_FAILED, CALL_EXCEPTION -> TRANSACTION_REVERTED,
\* NETWORK_ERROR -> NETWORK_ERROR (fromEthersError); -32602 ->
\* VALIDATION_ERROR, -32603 -> RPC_ERROR (fromRpcError).
C16_KnownCodesMapping ==
    /\ nVia = "fromEthersError"
       => /\ nOut.kind = "LicenseChainError"
          /\ nIn.code = "INSUFFICIENT_FUNDS" => nOut.code = "INSUFFICIENT_FUNDS"
          /\ nIn.code = "UNPREDICTABLE_GAS_LIMIT" => nOut.code = "GAS_ESTIMATION_FAILED"
          /\ nIn.code = "CALL_EXCEPTION" => nOut.code = "TRANSACTION_REVERTED"
          /\ nIn.code = "NETWORK_ERROR" => nOut.code = "NETWORK_ERROR"
    /\ nVia = "fromRpcError"
       => /\ nOut.kind = "LicenseChainError"
          /\ nIn.code = "-32602" => nOut.code = "VALIDATION_ERROR"
          /\ nIn.code = "-32603" => nOut.code = "RPC_ERROR"

\* a malformed-parameters fault has been through fromRpcError
C16_Witness ==
    /\ nVia = "fromRpcError"
    /\ nDepth = 1
    /\ nIn.code = "-32602"
    /\ nOut.code = "VALIDATION_ERROR"

C18_KnownNetworkProfiles ==
    (netPc = "done" /\ argNetwork \in KnownNetworks)
    => /\ ~netResult.threw
       /\ netResult.value.kind = "NetworkConfig"
       /\ netResult.value.chainId =
            (CASE argNetwork = "mainnet" -> 1
               [] argNetwork = "goerli" -> 5
               [] argNetwork = "sepolia" -> 11155111
               [] argNetwork = "polygon" -> 137
               [] argNetwork = "arbitrum" -> 42161
               [] argNetwork = "optimism" -> 10)
       /\ (argRpcUrl # Undefined /\ argRpcUrl.value # "")
            => netResult.value.rpcUrl = argRpcUrl.value
       /\ argRpcUrl = Undefined
            => netResult.value.rpcUrl = DefaultRpcUrl(argNetwork)

\* polygon resolved with an endpoint and a foreign chain id passed
C18_Witness ==
    /\ netPc = "done"
    /\ argNetwork = "polygon"
    /\ argChainId = Some(1337)
    /\ argRpcUrl = Some("http://localhost:8545")
    /\ netResult.value.chainId = 137
    /\ netResult.value.rpcUrl = "http://localhost:8545"

\* C19: resolution fails with a LicenseChainError of code INVALID_NETWORK
\* whenever the name is not a recognized one, and whenever it is "custom"
\* without both an endpoint and a chain id; no profile is returned.
C19_UnknownNetworkIsInvalidNetwork ==
    ( /\ netPc = "done"
      /\ \/ argNetwork \notin (KnownNetworks \cup {"custom"})
         \/ argNetwork = "custom" /\ (argRpcUrl = Undefined \/ argChainId = Undefined) )
    => /\ netResult.threw
       /\ netResult.error.kind = "LicenseChainError"
       /\ netResult.error.code = "INVALID_NETWORK"

\* C20: for "custom" with both an endpoint and a chain id passed (any integer
\* chain id, 0 included) resolution succeeds and the profile holds exactly
\* the chain id and endpoint passed.
C20_CustomNetworkResolves ==
    ( /\ netPc = "done"
      /\ argNetwork = "custom"
      /\ argChainId # Undefined
      /\ argRpcUrl # Undefined /\ argRpcUrl.value # "" )
    => /\ ~netResult.threw
       /\ netResult.value.chainId = argChainId.value
       /\ netResult.value.rpcUrl = argRpcUrl.value

\* ------------------------------------------------------------------ claims: Error Model
\* the codes of the kinds the closed taxonomy lists
TaxonomyCodes ==
    {"NETWORK_ERROR", "RPC_ERROR", "TIMEOUT_ERROR",
     "TRANSACTION_FAILED", "TRANSACTION_REVERTED", "INSUFFICIENT_FUNDS",
     "GAS_ESTIMATION_FAILED", "CONTRACT_NOT_DEPLOYED", "INVALID_CONTRACT_ADDRESS",
     "INVALID_TOKEN_ID", "LICENSE_NOT_FOUND", "LICENSE_EXPIRED", "LICENSE_REVOKED",
     "INVALID_LICENSE_METADATA", "UNAUTHORIZED", "INSUFFICIENT_PERMISSIONS",
     "ROLE_NOT_GRANTED", "INVALID_ADDRESS", "INVALID_NETWORK", "INVALID_CONFIG",
     "INVALID_METADATA", "UNKNOWN_ERROR"}

IsTaxonomyError(error) ==
    /\ error.kind = "LicenseChainError"
    /\ error.code \in TaxonomyCodes

\* C15: every failure that reaches the caller (from the constructor, with
\* the network resolution it does, and from getContract) is a
\* LicenseChainError whose code is one of the closed taxonomy.
C15_OnlyTaxonomyErrors ==
    /\ sdkPc = "thrown" => IsTaxonomyError(sdkError)
    /\ (gcPc = "done" /\ gcResult.threw) => IsTaxonomyError(gcResult.error)

\* ------------------------------------------------------------------ claims: gas estimate and queries
\* C21: every numeric field of the GasEstimate that estimateGasMintLicense
\* returns (gasLimit, gasPrice, totalCost) is a base-unit integer written as
\* a decimal string, and totalCost is gasLimit * gasPrice in base units, as
\* calculateGasCost computes it; never a fractional or ether-denominated value.
C21_GasEstimateInBaseUnits ==
    (rdMethod = "estimateGasMintLicense" /\ rdPc = "returned")
    => /\ IsDecimalString(rdResult.gasLimit)
       /\ IsDecimalString(rdResult.gasPrice)
       /\ IsDecimalString(rdResult.totalCost)
       /\ rdResult.totalCost = calculateGasCost(rdResult.gasLimit, rdResult.gasPrice)

\* C22: estimateGasMintLicense, the read-only methods of the facade and the
\* queries of the SDK never submit a transaction: over any sequence of such
\* calls, succeeding or failing, no transaction is broadcast.
C22_ReadsBroadcastNothing ==
    /\ rdSent = {}
    /\ \A k \in DOMAIN rdReads : ~Sends(Reads(rdMethod)[k])

\* a gas estimate has been returned and nothing was sent on the way
C22_Witness ==
    /\ rdMethod = "estimateGasMintLicense"
    /\ rdPc = "returned"
    /\ rdResult.gasLimit = <<2, 1, 0, 0, 0>>
    /\ rdSent = {}

\* ------------------------------------------------------------------ claims: license metadata
\* the entry of the options that is for the token
EntryFor(tokenId) ==
    mtLicenses[CHOOSE k \in DOMAIN mtLicenses : mtLicenses[k].tokenId = tokenId]

C24_IndependentCalls ==
    [][ /\ config' = config
        /\ \A c \in Calls :
            (callPc'[c] # callPc[c])
            => /\ \A d \in Calls \ {c} :
                    /\ callPc'[d] = callPc[d]
                    /\ callOp'[d] = callOp[d]
                    /\ callTx'[d] = callTx[d]
                    /\ callResult'[d] = callResult[d]
                    /\ callReceipt'[d] = callReceipt[d]
                    /\ callSubmits'[d] = callSubmits[d]
               /\ \A h \in DOMAIN txs : txs'[h] = txs[h]
               /\ callTx'[c] # 0 => txs'[callTx'[c]].call = c
               /\ (callPc'[c] = "returned" /\ callOp[c] = "method")
                    => /\ callResult'[c].hash = callTx[c]
                       /\ callResult'[c].blockNumber = txs[callTx[c]].block
                       /\ DecimalValue(callResult'[c].gasUsed) = callReceipt'[c].gasUsed
      ]_vars

\* two calls in flight at once ended differently: the one that submitted
\* second returned, the one that submitted first was rejected at its wait
C24_Witness ==
    \E c, d \in Calls :
        /\ c # d
        /\ callPc[c] = "returned" /\ callOp[c] = "method"
        /\ callPc[d] = "rejected" /\ callStage[d] = "wait"
        /\ callTx[d] = 1
        /\ callTx[c] = 2
        /\ txs[2].block = 1

\* ------------------------------------------------------------------ claims: construction
\* the call ended by throwing the error "Wallet not initialized"
IsUnauthorized(result) ==
    /\ result.threw
    /\ result.error.kind = "LicenseChainError"
    /\ result.error.code = "UNAUTHORIZED"

\* C25: constructing the SDK with a recognized network and a private key but
\* no rpcUrl and no walletProvider succeeds and uses the network's default
\* RPC endpoint; and on an SDK constructed with a walletProvider instead of
\* a private key, the deploy methods and getContract do not fail with
\* UNAUTHORIZED.
C25_ConstructionWithDefaults ==
    /\ ( /\ sdkPc \in {"constructed", "thrown"}
         /\ sdkConfig.network \in KnownNetworks
         /\ sdkConfig.privateKey
         /\ sdkConfig.rpcUrl = Undefined
         /\ ~sdkConfig.walletProvider )
       => /\ sdkPc = "constructed"
          /\ provider = "JsonRpcProvider"
          /\ networkConfig.rpcUrl = DefaultRpcUrl(sdkConfig.network)
    /\ ( /\ sdkPc = "constructed"
         /\ sdkConfig.walletProvider
         /\ ~sdkConfig.privateKey )
       => /\ dpPc = "done" => ~IsUnauthorized(dpResult)
          /\ gcPc = "done" => ~IsUnauthorized(gcResult)

\* ------------------------------------------------------------------ claims: gas parameters
\* the value of one gas parameter handed over with the transaction
Submitted(param) == IF gsOverrides = Undefined THEN Undefined ELSE gsOverrides[param]

\* C26: every mutating operation, deploy included, submits its transaction
\* with each gas parameter resolved: the configured default where the
\* configuration has one (there is no per-call override to rank above it),
\* else a fresh estimate; a configured default is never ignored and no
\* parameter is submitted unresolved.
C26_GasParametersResolved ==
    gsPc # "idle" =>
        \A param \in {"gasLimit", "gasPrice"} :
            /\ gsConfig[param] # Undefined => Submitted(param) = gsConfig[param]
            /\ Submitted(param) # Undefined

\* ------------------------------------------------------------------ claims: retry classification
\* C27: isRetryableError agrees with the Timeout Guard and the normalizers:
\* the error withTimeout rejects with when its timer fires is retryable, a
\* normalized error is retryable when its code is NETWORK_ERROR or RPC_ERROR,
\* and a normalized error of any other code is not retryable, whatever its
\* message.
C27_RetryClassification ==
    nDepth >= 1 =>
        /\ isRetryableError(TimedOutError)
        /\ isRetryableError(nOut) <=> nOut.code \in {"NETWORK_ERROR", "RPC_ERROR"}

\* ------------------------------------------------------------------ claims: Retry Policy, maxRetries <= 0
\* C28: retryWithBackoff called with maxRetries <= 0 never invokes fn and
\* never sleeps; the one step it can take is the throw after the loop, and
\* what it throws is lastError as declared, never assigned: undefined. It
\* never returns a value.
C28_NoAttemptsRejectsUndefined ==
    (rPc # "idle" /\ maxRetries <= 0) =>
        /\ rCalls = 0
        /\ rHist = <<>>
        /\ rSleeps = <<>>
        /\ lastError = Undefined
        /\ rPc \in {"loop", "thrown"}
        /\ rPc = "loop" => (ENABLED RetryLoopExit /\ ~ENABLED RetryInvoke)
        /\ rPc = "thrown" => rResult = Undefined

\* a call with a negative maxRetries has rejected
C28_Witness ==
    /\ maxRetries < 0
    /\ rPc = "thrown"
    /\ rResult = Undefined
    /\ rCalls = 0

====
